---- MODULE Spec2Model ----
(***************************************************************************)
(* Pending-edit reconciliation of the musicky MP3 library: the edit store  *)
(* (mp3_pending_edits), the history log (mp3_edit_history), the on-disk    *)
(* ID3 comment of each file and the telefunc handlers that act on them.    *)
(* Comments are sequences of one-character strings, so that the regular    *)
(* expression /#\w+/g, trim() and join(' ') are computed as the code does. *)
(***************************************************************************)
EXTENDS Integers, Sequences, FiniteSets, Bags, TLC

\* ------------------------------------------------------------------ bounds
MaxEdits == 2
MaxHistory == 2
MaxInFlight == 2
MaxPhases == 4
MaxCommentLen == 4
MaxLoads == 3          \* load requests of the data service in flight
MaxCalls == 2          \* loadLibraryData calls awaiting their loads

\* ------------------------------------------------------------ strings
WordChars == {"p", "q", "x", "z"}

Null == <<"null">>

OrEmpty(c) == IF c = Null THEN <<>> ELSE c

OrNull(c) == IF c = <<>> THEN Null ELSE c

RECURSIVE RunLen(_, _)
RunLen(s, i) ==
  IF i > Len(s) THEN 0
  ELSE IF s[i] \in WordChars THEN 1 + RunLen(s, i + 1) ELSE 0

RECURSIVE MatchTags(_, _)
MatchTags(s, i) ==
  IF i > Len(s) THEN <<>>
  ELSE IF s[i] = "#" /\ RunLen(s, i + 1) > 0
       THEN <<SubSeq(s, i, i + RunLen(s, i + 1))>> \o MatchTags(s, i + 1 + RunLen(s, i + 1))
       ELSE MatchTags(s, i + 1)

RECURSIVE StripTags(_, _)
StripTags(s, i) ==
  IF i > Len(s) THEN <<>>
  ELSE IF s[i] = "#" /\ RunLen(s, i + 1) > 0
       THEN StripTags(s, i + 1 + RunLen(s, i + 1))
       ELSE <<s[i]>> \o StripTags(s, i + 1)

RECURSIVE TrimLeft(_)
TrimLeft(s) == IF s # <<>> /\ Head(s) = " " THEN TrimLeft(Tail(s)) ELSE s

RECURSIVE TrimRight(_)
TrimRight(s) ==
  IF s # <<>> /\ s[Len(s)] = " " THEN TrimRight(SubSeq(s, 1, Len(s) - 1)) ELSE s

Trim(s) == TrimRight(TrimLeft(s))

RECURSIVE Join(_)
Join(parts) ==
  IF parts = <<>> THEN <<>>
  ELSE IF Len(parts) = 1 THEN parts[1]
  ELSE parts[1] \o <<" ">> \o Join(Tail(parts))

Includes(list, x) == \E i \in 1..Len(list) : list[i] = x

\* ------------------------------------------------------------ tag codec
AvailablePhases == << <<"p">>, <<"q">> >>

readPhases == AvailablePhases

NonPhaseTags(commentText, availablePhases) ==
  LET IsForeign(tag) == ~Includes(availablePhases, Tail(tag))
  IN  SelectSeq(MatchTags(commentText, 1), IsForeign)

NonTagContent(commentText) == Trim(StripTags(commentText, 1))

PhaseTags(phases) == [i \in 1..Len(phases) |-> <<"#">> \o phases[i]]

RebuildComment_DropsForeign(originalComment, availablePhases, phases) ==
  LET commentText == OrEmpty(originalComment)
      content == NonTagContent(commentText)
      parts == (IF content # <<>> THEN <<content>> ELSE <<>>) \o PhaseTags(phases)
  IN  Trim(Join(parts))

RebuildComment(originalComment, availablePhases, phases) ==
  LET commentText == OrEmpty(originalComment)
      content == NonTagContent(commentText)
      parts == (IF content # <<>> THEN <<content>> ELSE <<>>)
               \o NonPhaseTags(commentText, availablePhases)
               \o PhaseTags(phases)
  IN  Trim(Join(parts))

\* ------------------------------------------------------------ state
Files == {"a.mp3", "b.mp3"}

OtherPath == "c.wav"

UserComments == { <<"z">>, <<" ">> }

PhaseInputs == { << <<"q">> >> }

EditIds == 1..MaxEdits

NoIds == {0}

NoError == [error |-> "", filePath |-> ""]

NoWrite == [pc |-> "idle", filePath |-> "", comment |-> <<>>, access |-> "",
            update |-> "", error |-> <<>>]

\* MusicDataService after construction
NewService == [cache |-> {}, loading |-> {}, requests |-> EmptyBag, awaiting |-> {}]

NoCall == [availablePhases |-> <<>>, comment |-> <<>>, phases |-> <<>>, call |-> "",
           phase |-> <<>>, result |-> <<>>]

VARIABLES
  edits,           \* rows of mp3_pending_edits, in insertion order
  nextEditId,      \* AUTOINCREMENT counter of mp3_pending_edits
  history,         \* rows of mp3_edit_history, in insertion order (id = index)
  disk,            \* the ID3 comment stored in each file
  lastApplyError,  \* module-level diagnostic of the batch apply
  toggles,         \* onUpdateFilePhases calls suspended at the awaited read
  client,          \* the state of the library page: mp3Files, phases, pendingEdits
  codec,           \* the arguments and results of the tag codec functions
  tagWrite,        \* one call of MP3MetadataManager.writeComment, step by step
  service          \* the MusicDataService: cache, loading and requests in flight

vars == <<edits, nextEditId, history, disk, lastApplyError, toggles, client, codec,
          tagWrite, service>>

Ok == [ok |-> TRUE, error |-> ""]

Err(msg) == [ok |-> FALSE, error |-> msg]

validateMP3File(filePath) == filePath \in Files

WriteError == "Failed to write MP3 comment"

\* ------------------------------------------------------------ edit store
Rows(es) == {es[i] : i \in 1..Len(es)}

Exists(es, id) == \E r \in Rows(es) : r.id = id

getPendingEditById(es, id) == CHOOSE r \in Rows(es) : r.id = id

\* created_at is CURRENT_TIMESTAMP: rows are taken to be inserted at distinct
\* times, so the insertion count stands for the timestamp
insertPendingEdit(st, filePath, originalComment, newComment) ==
  [st EXCEPT !.edits = Append(@, [id |-> st.nextEditId, filePath |-> filePath,
                                  originalComment |-> originalComment,
                                  newComment |-> newComment,
                                  createdAt |-> st.nextEditId, status |-> "pending"]),
             !.nextEditId = @ + 1]

updateEditStatus(es, id, status) ==
  [i \in 1..Len(es) |-> IF es[i].id = id THEN [es[i] EXCEPT !.status = status] ELSE es[i]]

updatePendingEdit_Rebase(es, id, newComment) ==
  [i \in 1..Len(es) |->
     IF es[i].id = id
     THEN [es[i] EXCEPT !.originalComment = es[i].newComment, !.newComment = newComment]
     ELSE es[i]]

updatePendingEdit(es, id, newComment) ==
  [i \in 1..Len(es) |-> IF es[i].id = id THEN [es[i] EXCEPT !.newComment = newComment]
                        ELSE es[i]]

deletePendingEdit(es, id) == LET Other(r) == r.id # id IN SelectSeq(es, Other)

PendingRows(es, filePath) ==
  {r \in Rows(es) : r.filePath = filePath /\ r.status = "pending"}

\* what the lookup of a file's pending edit may return (null as id 0)
getPendingEditByFilePath(es, filePath) ==
  IF PendingRows(es, filePath) = {} THEN {[id |-> 0, originalComment |-> Null]}
  ELSE {[id |-> r.id, originalComment |-> r.originalComment] : r \in PendingRows(es, filePath)}

IsSortedDesc(q) == \A i \in 1..(Len(q) - 1) : q[i].createdAt >= q[i + 1].createdAt

\* the orders in which SELECT ... ORDER BY created_at DESC may return the rows
getAllPendingEdits(es) ==
  {q \in [1..Len(es) -> Rows(es)] :
     /\ \A r \in Rows(es) : \E i \in 1..Len(es) : q[i] = r
     /\ IsSortedDesc(q)}

\* ------------------------------------------------------------ history log
insertHistory(hs, filePath, oldComment, newComment) ==
  Append(hs, [id |-> Len(hs) + 1, filePath |-> filePath, oldComment |-> oldComment,
              newComment |-> newComment, reverted |-> FALSE])

markReverted(hs, id) ==
  [i \in 1..Len(hs) |-> IF i = id THEN [hs[i] EXCEPT !.reverted = TRUE] ELSE hs[i]]

Matching(hs, edit) ==
  {i \in 1..Len(hs) : /\ hs[i].filePath = edit.filePath
                      /\ hs[i].newComment = edit.newComment
                      /\ ~hs[i].reverted}

Max(S) == CHOOSE m \in S : \A n \in S : n <= m

\* ------------------------------------------------------------ Init
Init ==
  /\ edits = <<>>
  /\ nextEditId = 1
  /\ history = <<>>
  /\ disk = [f \in Files |-> IF f = "a.mp3" THEN <<"x", " ", "#", "p">> ELSE <<>>]
  /\ lastApplyError = NoError
  /\ toggles = EmptyBag
  /\ client = [mp3Files |-> disk, phases |-> readPhases, pendingEdits |-> <<>>]
  /\ tagWrite = NoWrite
  /\ service = NewService
  /\ codec = NoCall

\* ------------------------------------------------------------ handlers
\* A handler is a function of the state it finds: it gives the state it
\* leaves, with the value it returned or the error it threw in reply.
State == [reply |-> Ok, edits |-> edits, nextEditId |-> nextEditId,
          history |-> history, disk |-> disk, lastApplyError |-> lastApplyError]

Throw(st, msg) == [st EXCEPT !.reply = Err(msg)]

Return(st) == [st EXCEPT !.reply = Ok]

UpdateFilePhasesRest_AlwaysInsert(st, t, readOk) ==
  LET originalComment == st.disk[t.filePath]
      newComment == RebuildComment(originalComment, readPhases, t.phases)
  IN  IF ~readOk THEN Throw(st, "Failed to read MP3 metadata")
      ELSE Return(insertPendingEdit(st, t.filePath, originalComment, newComment))

UpdateFilePhasesRest_WritesFile(st, t, readOk) ==
  LET originalComment == IF t.existingPendingEdit.id # 0
                         THEN t.existingPendingEdit.originalComment
                         ELSE st.disk[t.filePath]
      newComment == RebuildComment(originalComment, readPhases, t.phases)
      written == [st EXCEPT !.disk = [@ EXCEPT ![t.filePath] = newComment]]
  IN  IF ~readOk THEN Throw(st, "Failed to read MP3 metadata")
      ELSE IF t.existingPendingEdit.id # 0
      THEN Return([written EXCEPT !.edits = updatePendingEdit(@, t.existingPendingEdit.id,
                                                              newComment)])
      ELSE Return(insertPendingEdit(written, t.filePath, originalComment, newComment))

\* onUpdateFilePhases after its awaited readMetadata; t holds the arguments
\* and the pending edit found before the await
UpdateFilePhasesRest(st, t, readOk) ==
  LET originalComment == IF t.existingPendingEdit.id # 0
                         THEN t.existingPendingEdit.originalComment
                         ELSE st.disk[t.filePath]
      newComment == RebuildComment(originalComment, readPhases, t.phases)
  IN  IF ~readOk THEN Throw(st, "Failed to read MP3 metadata")
      ELSE IF t.existingPendingEdit.id # 0
      THEN Return([st EXCEPT !.edits = updatePendingEdit(@, t.existingPendingEdit.id,
                                                         newComment)])
      ELSE Return(insertPendingEdit(st, t.filePath, originalComment, newComment))

\* the outcomes of onUpdateFilePhases when nothing runs during its await
onUpdateFilePhases(st, filePath, phases, readOk) ==
  {UpdateFilePhasesRest(st, [filePath |-> filePath, phases |-> phases,
                             existingPendingEdit |-> e], readOk) :
     e \in getPendingEditByFilePath(st.edits, filePath)}

onSavePendingEdit(st, filePath, originalComment, newComment) ==
  IF ~validateMP3File(filePath) THEN Throw(st, "File is not a valid MP3 file")
  ELSE IF Trim(newComment) = <<>> THEN Throw(st, "New comment cannot be empty")
  ELSE Return(insertPendingEdit(st, filePath, originalComment, newComment))

WriteAndRecord_NoHistory(st, edit) ==
  [st EXCEPT !.disk = [@ EXCEPT ![edit.filePath] = edit.newComment],
             !.edits = updateEditStatus(@, edit.id, "applied")]

\* the try block of the loop of onApplyPendingEdits when the write succeeds
WriteAndRecord(st, edit) ==
  [st EXCEPT !.disk = [@ EXCEPT ![edit.filePath] = edit.newComment],
             !.history = insertHistory(@, edit.filePath, edit.originalComment,
                                       edit.newComment),
             !.edits = updateEditStatus(@, edit.id, "applied")]

\* the catch block of the loop of onApplyPendingEdits
MarkFailed(st, edit, errorMessage) ==
  [st EXCEPT !.edits = updateEditStatus(@, edit.id, "failed"),
             !.lastApplyError = [error |-> errorMessage, filePath |-> edit.filePath]]

RECURSIVE ApplyLoop_StopAtFailure(_, _, _, _, _)
ApplyLoop_StopAtFailure(st, writable, editsToApply, successCount, failed) ==
  IF editsToApply = <<>>
  THEN [st EXCEPT !.reply = [ok |-> TRUE, error |-> "", success |-> successCount,
                             failed |-> failed]]
  ELSE LET edit == Head(editsToApply)
       IN  IF validateMP3File(edit.filePath) /\ writable[edit.filePath]
           THEN ApplyLoop_StopAtFailure(WriteAndRecord(st, edit), writable,
                                        Tail(editsToApply), successCount + 1, failed)
           ELSE ApplyLoop_StopAtFailure(MarkFailed(st, edit, WriteError), writable, <<>>,
                                        successCount,
                                        Append(failed, [id |-> edit.id, error |-> WriteError,
                                                        filePath |-> edit.filePath]))

\* the loop of onApplyPendingEdits over editsToApply
RECURSIVE ApplyLoop(_, _, _, _, _)
ApplyLoop(st, writable, editsToApply, successCount, failed) ==
  IF editsToApply = <<>>
  THEN [st EXCEPT !.reply = [ok |-> TRUE, error |-> "", success |-> successCount,
                             failed |-> failed]]
  ELSE LET edit == Head(editsToApply)
           errorMessage == IF ~validateMP3File(edit.filePath) THEN "Invalid MP3 file"
                           ELSE WriteError
       IN  IF validateMP3File(edit.filePath) /\ writable[edit.filePath]
           THEN ApplyLoop(WriteAndRecord(st, edit),
                          writable, Tail(editsToApply), successCount + 1, failed)
           ELSE ApplyLoop(MarkFailed(st, edit, errorMessage),
                          writable, Tail(editsToApply), successCount,
                          Append(failed, [id |-> edit.id, error |-> errorMessage,
                                          filePath |-> edit.filePath]))

EditsToApply_PendingOnly(pendingEdits, editIds) ==
  LET Named(edit) == edit.id \in editIds /\ edit.status = "pending"
  IN  IF editIds # NoIds THEN SelectSeq(pendingEdits, Named) ELSE pendingEdits

EditsToApply(pendingEdits, editIds) ==
  LET Named(edit) == edit.id \in editIds
  IN  IF editIds # NoIds THEN SelectSeq(pendingEdits, Named) ELSE pendingEdits

\* the outcomes of onApplyPendingEdits, one for each order of the rows read
onApplyPendingEdits(st, writable, editIds) ==
  {ApplyLoop(st, writable, EditsToApply(pendingEdits, editIds), 0, <<>>) :
     pendingEdits \in getAllPendingEdits(st.edits)}

\* onApplyPendingEdit of MP3Library.telefunc: one edit, no history entry
onApplyPendingEdit(st, writable, editId) ==
  IF ~Exists(st.edits, editId) THEN Throw(st, "Edit not found")
  ELSE LET edit == getPendingEditById(st.edits, editId)
       IN  IF edit.status # "pending" THEN Throw(st, "Edit is not in pending status")
           ELSE IF ~writable[edit.filePath]
           THEN [st EXCEPT !.reply = Err(WriteError),
                           !.edits = updateEditStatus(@, editId, "failed")]
           ELSE Return([st EXCEPT !.disk = [@ EXCEPT ![edit.filePath] = edit.newComment],
                                  !.edits = updateEditStatus(@, editId, "applied")])

onRejectPendingEdit(st, editId) ==
  IF ~Exists(st.edits, editId) THEN Throw(st, "Edit not found")
  ELSE IF getPendingEditById(st.edits, editId).status # "pending"
  THEN Throw(st, "Edit is not in pending status")
  ELSE Return([st EXCEPT !.edits = deletePendingEdit(@, editId)])

onDeletePendingEdit(st, id) == Return([st EXCEPT !.edits = deletePendingEdit(@, id)])

onUpdatePendingEdit(st, id, newComment) ==
  IF Trim(newComment) = <<>> THEN Throw(st, "Comment cannot be empty")
  ELSE Return([st EXCEPT !.edits = updatePendingEdit(@, id, newComment)])

onUndoAppliedEdit_KeepsEntry(st, writable, id) ==
  IF ~Exists(st.edits, id) THEN Throw(st, "Edit not found")
  ELSE LET edit == getPendingEditById(st.edits, id)
       IN  IF edit.status # "applied" THEN Throw(st, "Edit is not applied")
           ELSE IF ~writable[edit.filePath] THEN Throw(st, WriteError)
           ELSE Return([st EXCEPT
                  !.disk = [@ EXCEPT ![edit.filePath] = OrEmpty(edit.originalComment)],
                  !.edits = updateEditStatus(@, id, "pending")])

onUndoAppliedEdit_AnyStatus(st, writable, id) ==
  IF ~Exists(st.edits, id) THEN Throw(st, "Edit not found")
  ELSE LET edit == getPendingEditById(st.edits, id)
           found == Matching(st.history, edit)
       IN  IF ~writable[edit.filePath] THEN Throw(st, WriteError)
           ELSE Return([st EXCEPT
                  !.disk = [@ EXCEPT ![edit.filePath] = OrEmpty(edit.originalComment)],
                  !.history = IF found # {} THEN markReverted(@, Max(found)) ELSE @,
                  !.edits = updateEditStatus(@, id, "pending")])

onUndoAppliedEdit_UpdatesBeforeWrite(st, writable, id) ==
  IF ~Exists(st.edits, id) THEN Throw(st, "Edit not found")
  ELSE LET edit == getPendingEditById(st.edits, id)
           found == Matching(st.history, edit)
           updated == [st EXCEPT
                  !.history = IF found # {} THEN markReverted(@, Max(found)) ELSE @,
                  !.edits = updateEditStatus(@, id, "pending")]
       IN  IF edit.status # "applied" THEN Throw(st, "Edit is not applied")
           ELSE IF ~writable[edit.filePath] THEN Throw(updated, WriteError)
           ELSE Return([updated EXCEPT
                  !.disk = [@ EXCEPT ![edit.filePath] = OrEmpty(edit.originalComment)]])

onUndoAppliedEdit(st, writable, id) ==
  IF ~Exists(st.edits, id) THEN Throw(st, "Edit not found")
  ELSE LET edit == getPendingEditById(st.edits, id)
           found == Matching(st.history, edit)
       IN  IF edit.status # "applied" THEN Throw(st, "Edit is not applied")
           ELSE IF ~writable[edit.filePath] THEN Throw(st, WriteError)
           ELSE Return([st EXCEPT
                  !.disk = [@ EXCEPT ![edit.filePath] = OrEmpty(edit.originalComment)],
                  !.history = IF found # {} THEN markReverted(@, Max(found)) ELSE @,
                  !.edits = updateEditStatus(@, id, "pending")])

onRevertHistory(st, writable, id) ==
  IF id \notin 1..Len(st.history) THEN Throw(st, "History not found")
  ELSE IF ~writable[st.history[id].filePath] THEN Throw(st, WriteError)
  ELSE Return([st EXCEPT
         !.disk = [@ EXCEPT ![st.history[id].filePath] = OrEmpty(st.history[id].oldComment)],
         !.history = markReverted(@, id)])

onClearLastApplyError(st) == Return([st EXCEPT !.lastApplyError = NoError])

\* ------------------------------------------------------------ actions
\* a handler runs from the current state and leaves its outcome
Handle(out) ==
  /\ out.nextEditId <= MaxEdits + 1
  /\ Len(out.history) <= MaxHistory
  /\ edits' = out.edits
  /\ nextEditId' = out.nextEditId
  /\ history' = out.history
  /\ disk' = out.disk
  /\ lastApplyError' = out.lastApplyError

\* MP3MetadataViewer passes metadata.comment || null as the original comment
ClientOriginal(filePath) == IF filePath \in Files THEN OrNull(disk[filePath]) ELSE Null

\* the tag writer during one call: the files on which writeComment succeeds
Writers == [Files -> BOOLEAN]

IdInputs == {NoIds} \cup (SUBSET EditIds \ {{}})

UpdateFilePhases ==
  \E f \in Files, ph \in PhaseInputs, readOk \in BOOLEAN :
    \E out \in onUpdateFilePhases(State, f, ph, readOk) :
      Handle(out) /\ UNCHANGED <<toggles, client, codec, tagWrite, service>>

SavePendingEdit ==
  \E f \in Files \cup {OtherPath}, c \in UserComments :
    Handle(onSavePendingEdit(State, f, ClientOriginal(f), c)) /\ UNCHANGED <<toggles, client, codec, tagWrite, service>>

ApplyPendingEdits ==
  \E ids \in IdInputs, w \in Writers : \E out \in onApplyPendingEdits(State, w, ids) :
    Handle(out) /\ UNCHANGED <<toggles, client, codec, tagWrite, service>>

ApplyPendingEdit ==
  \E id \in EditIds, w \in Writers : Handle(onApplyPendingEdit(State, w, id)) /\ UNCHANGED <<toggles, client, codec, tagWrite, service>>

RejectPendingEdit ==
  \E id \in EditIds : Handle(onRejectPendingEdit(State, id)) /\ UNCHANGED <<toggles, client, codec, tagWrite, service>>

DeletePendingEdit ==
  \E id \in EditIds : Handle(onDeletePendingEdit(State, id)) /\ UNCHANGED <<toggles, client, codec, tagWrite, service>>

UpdatePendingEdit ==
  \E id \in EditIds, c \in UserComments :
    Handle(onUpdatePendingEdit(State, id, c)) /\ UNCHANGED <<toggles, client, codec, tagWrite, service>>

UndoAppliedEdit ==
  \E id \in EditIds, w \in Writers : Handle(onUndoAppliedEdit(State, w, id)) /\ UNCHANGED <<toggles, client, codec, tagWrite, service>>

RevertHistory ==
  \E id \in 1..MaxHistory, w \in Writers : Handle(onRevertHistory(State, w, id)) /\ UNCHANGED <<toggles, client, codec, tagWrite, service>>

ClearLastApplyError == Handle(onClearLastApplyError(State)) /\ UNCHANGED <<toggles, client, codec, tagWrite, service>>

\* ------------------------------------------------------------ specification
Next ==
  \/ UpdateFilePhases
  \/ SavePendingEdit
  \/ ApplyPendingEdits
  \/ ApplyPendingEdit
  \/ RejectPendingEdit
  \/ DeletePendingEdit
  \/ UpdatePendingEdit
  \/ UndoAppliedEdit
  \/ RevertHistory
  \/ ClearLastApplyError

Spec == Init /\ [][Next]_vars

\* ------------------------------------------------ concurrent phase toggles
\* onUpdateFilePhases up to its awaited readMetadata: the lookup of the
\* file's pending edit
UpdateFilePhasesLookup ==
  \E f \in Files, ph \in PhaseInputs :
    \E e \in getPendingEditByFilePath(edits, f) :
      /\ BagCardinality(toggles) < MaxInFlight
      /\ toggles' = toggles (+) SetToBag({[filePath |-> f, phases |-> ph,
                                           existingPendingEdit |-> e]})
      /\ UNCHANGED <<edits, nextEditId, history, disk, lastApplyError, client, codec,
                     tagWrite, service>>

\* onUpdateFilePhases resumed after the await, on the state it finds then
UpdateFilePhasesFinish ==
  \E t \in BagToSet(toggles), readOk \in BOOLEAN :
    /\ Handle(UpdateFilePhasesRest(State, t, readOk))
    /\ toggles' = toggles (-) SetToBag({t})
    /\ UNCHANGED <<client, codec, tagWrite, service>>

NextRace ==
  \/ UpdateFilePhasesLookup
  \/ UpdateFilePhasesFinish
  \/ RejectPendingEdit
  \/ UpdatePendingEdit

SpecRace == Init /\ [][NextRace]_vars

\* ------------------------------------------------ sequential phase toggles
\* the phase lists a client sends and the comments the files start with
PhaseLists == { <<>>, << <<"p">> >>, << <<"q">> >>, << <<"p">>, <<"q">> >> }

ToggleComments ==
  { <<>>, <<"#", "p">>, <<"x", " ", "#", "p">>, <<"#", "q", " ", "#", "z">> }

InitToggle ==
  /\ edits = <<>>
  /\ nextEditId = 1
  /\ history = <<>>
  /\ disk \in [Files -> ToggleComments]
  /\ lastApplyError = NoError
  /\ toggles = EmptyBag
  /\ client = [mp3Files |-> disk, phases |-> readPhases, pendingEdits |-> <<>>]
  /\ tagWrite = NoWrite
  /\ service = NewService
  /\ codec = NoCall

UpdateFilePhasesAny ==
  \E f \in Files, ph \in PhaseLists, readOk \in BOOLEAN :
    \E out \in onUpdateFilePhases(State, f, ph, readOk) :
      Handle(out) /\ UNCHANGED <<toggles, client, codec, tagWrite, service>>

SpecToggle == InitToggle /\ [][UpdateFilePhasesAny]_vars

\* ------------------------------------------------ the library page (client)
Min(S) == CHOOSE m \in S : \A n \in S : m <= n

extractPhases(comment, availablePhases) ==
  LET hashtags == MatchTags(comment, 1)
      names == [i \in 1..Len(hashtags) |-> Tail(hashtags[i])]
      IsPhase(tag) == Includes(availablePhases, tag)
  IN  SelectSeq(names, IsPhase)

\* the index in pendingEdits of the edit that find returns, 0 for undefined
findPendingEdit(pendingEdits, filePath) ==
  LET hits == {i \in 1..Len(pendingEdits) :
                 pendingEdits[i].filePath = filePath /\ pendingEdits[i].status = "pending"}
  IN  IF hits = {} THEN 0 ELSE Min(hits)

getEffectiveComment(pendingEdits, filePath, originalComment) ==
  LET pendingEdit == findPendingEdit(pendingEdits, filePath)
  IN  IF pendingEdit # 0 THEN pendingEdits[pendingEdit].newComment ELSE originalComment

\* getEffectiveComment of the business logic layer: find by filePath alone
getEffectiveCommentForDisplay(file, pendingEdits) ==
  LET hits == {i \in 1..Len(pendingEdits) : pendingEdits[i].filePath = file.filePath}
  IN  IF hits # {} THEN pendingEdits[Min(hits)].newComment ELSE file.comment

\* [...new Set(list)]: the first occurrence of each element, in order
RECURSIVE Dedupe(_)
Dedupe(list) ==
  IF list = <<>> THEN <<>>
  ELSE LET front == Dedupe(SubSeq(list, 1, Len(list) - 1))
       IN  IF Includes(front, list[Len(list)]) THEN front
           ELSE Append(front, list[Len(list)])

togglePhase_Append(currentPhases, phase, checked) ==
  LET Other(ph) == ph # phase
  IN  IF checked THEN Append(currentPhases, phase)
      ELSE SelectSeq(currentPhases, Other)

togglePhase(currentPhases, phase, checked) ==
  LET Other(ph) == ph # phase
  IN  IF checked THEN Dedupe(Append(currentPhases, phase))
      ELSE SelectSeq(currentPhases, Other)

onGetPendingEdits(st) == getAllPendingEdits(st.edits)

handlePhaseToggle_IgnoresPending(st, cl, filePath, phase, checked, readOk) ==
  LET currentPhases == extractPhases(cl.mp3Files[filePath], cl.phases)
      newPhases == togglePhase(currentPhases, phase, checked)
  IN  UNION {IF result.reply.ok
             THEN {[server |-> result, client |-> [cl EXCEPT !.pendingEdits = q]] :
                     q \in onGetPendingEdits(result)}
             ELSE {[server |-> result, client |-> cl]} :
               result \in onUpdateFilePhases(st, filePath, newPhases, readOk)}

\* handlePhaseToggle of usePhaseActions with its refreshPendingEdits: the
\* server outcome and the client state it leaves
handlePhaseToggle(st, cl, filePath, phase, checked, readOk) ==
  LET effectiveComment ==
        getEffectiveComment(cl.pendingEdits, filePath, cl.mp3Files[filePath])
      currentPhases == extractPhases(effectiveComment, cl.phases)
      newPhases == togglePhase(currentPhases, phase, checked)
  IN  UNION {IF result.reply.ok
             THEN {[server |-> result, client |-> [cl EXCEPT !.pendingEdits = q]] :
                     q \in onGetPendingEdits(result)}
             ELSE {[server |-> result, client |-> cl]} :
               result \in onUpdateFilePhases(st, filePath, newPhases, readOk)}

PhaseNames == {AvailablePhases[i] : i \in 1..Len(AvailablePhases)}

ClientComments ==
  { <<>>, <<"x">>, <<"x", " ", "#", "z">>, <<"#", "z", " ", "x">>, <<"#", "p">> }

InitClient ==
  /\ edits = <<>>
  /\ nextEditId = 1
  /\ history = <<>>
  /\ disk \in [Files -> ClientComments]
  /\ lastApplyError = NoError
  /\ toggles = EmptyBag
  /\ client = [mp3Files |-> disk, phases |-> readPhases, pendingEdits |-> <<>>]
  /\ tagWrite = NoWrite
  /\ service = NewService
  /\ codec = NoCall

HandlePhaseToggle ==
  \E f \in Files, phase \in PhaseNames, checked \in BOOLEAN, readOk \in BOOLEAN :
    \E r \in handlePhaseToggle(State, client, f, phase, checked, readOk) :
      /\ Handle(r.server)
      /\ client' = r.client
      /\ UNCHANGED <<toggles, codec, tagWrite, service>>

SpecClient == InitClient /\ [][HandlePhaseToggle]_vars

\* ------------------------------------------------ rapid toggles of the page
\* handlePhaseToggle up to its awaited onUpdateFilePhases: the phase list it
\* sends, computed from the page's snapshot of the pending edits
newPhasesOf(cl, filePath, phase, checked) ==
  togglePhase(extractPhases(getEffectiveComment(cl.pendingEdits, filePath,
                                                cl.mp3Files[filePath]),
                            cl.phases),
              phase, checked)

\* a click that enables a phase: the request leaves with the list computed
\* now; toggles keeps the calls, those that completed marked done
SendPhaseToggle ==
  \E f \in Files, phase \in PhaseNames :
    /\ BagCardinality(toggles) < MaxInFlight
    /\ toggles' = toggles (+) SetToBag({[filePath |-> f, phase |-> phase,
                                         phases |-> newPhasesOf(client, f, phase, TRUE),
                                         done |-> FALSE]})
    /\ UNCHANGED <<edits, nextEditId, history, disk, lastApplyError, client, codec,
                   tagWrite, service>>

\* the server handles one request and the page refreshes its pending edits;
\* a request that failed is dropped
ProcessPhaseToggle ==
  \E t \in BagToSet(toggles), readOk \in BOOLEAN :
    \E result \in onUpdateFilePhases(State, t.filePath, t.phases, readOk) :
      \E q \in onGetPendingEdits(result) :
        /\ ~t.done
        /\ Handle(result)
        /\ client' = IF result.reply.ok THEN [client EXCEPT !.pendingEdits = q] ELSE client
        /\ toggles' = (toggles (-) SetToBag({t}))
                      (+) (IF result.reply.ok THEN SetToBag({[t EXCEPT !.done = TRUE]})
                           ELSE EmptyBag)
        /\ UNCHANGED <<codec, tagWrite, service>>

NextRapid == SendPhaseToggle \/ ProcessPhaseToggle

SpecRapid == InitClient /\ [][NextRapid]_vars

\* ------------------------------------------------ the tag codec on its own
\* codec holds the arguments of the last call (availablePhases, comment,
\* phases, phase), the function called and what it returned
TagNames == { <<"p">>, <<"q">>, <<"z">> }

ListsOf(S, n) == UNION {[1..k -> S] : k \in 0..n}

Count(list, x) == Cardinality({i \in 1..Len(list) : list[i] = x})

InitPhaseList ==
  /\ edits = <<>>
  /\ nextEditId = 1
  /\ history = <<>>
  /\ disk = [f \in Files |-> <<>>]
  /\ lastApplyError = NoError
  /\ toggles = EmptyBag
  /\ client = [mp3Files |-> disk, phases |-> readPhases, pendingEdits |-> <<>>]
  /\ tagWrite = NoWrite
  /\ service = NewService
  /\ \E L \in ListsOf(TagNames, MaxPhases) : codec = [NoCall EXCEPT !.phases = L]

\* togglePhase applied to the phase list at hand; its result is the next list
TogglePhase ==
  \E phase \in TagNames, checked \in BOOLEAN :
    /\ LET currentPhases == IF codec.call = "" THEN codec.phases ELSE codec.result
       IN  codec' = [codec EXCEPT !.call = IF checked THEN "on" ELSE "off",
                                  !.phase = phase,
                                  !.phases = currentPhases,
                                  !.result = togglePhase(currentPhases, phase, checked)]
    /\ UNCHANGED <<edits, nextEditId, history, disk, lastApplyError, toggles, client,
                   tagWrite, service>>

SpecPhaseList == InitPhaseList /\ [][TogglePhase]_vars

\* the phase lists of the settings: names are any non-empty trimmed strings
PhaseConfigs ==
  { << <<"p">>, <<"q">> >>, << <<"q">> >>, << <<"p">>, <<"p", "-", "q">> >> }

CommentChars == {"#", " ", "p", "z"}

\* "#custom notes #peak" with custom as z, notes as x and peak as p
ExampleComments == { <<"#", "z", " ", "x", " ", "#", "p">> }

\* the duplicate-free lists drawn from a list of names
DrawnFrom(availablePhases) ==
  {S \in ListsOf({availablePhases[i] : i \in 1..Len(availablePhases)},
                 Len(availablePhases)) :
     \A i \in 1..Len(S) : \A j \in 1..Len(S) : S[i] = S[j] => i = j}

InitCodec ==
  /\ edits = <<>>
  /\ nextEditId = 1
  /\ history = <<>>
  /\ disk = [f \in Files |-> <<>>]
  /\ lastApplyError = NoError
  /\ toggles = EmptyBag
  /\ client = [mp3Files |-> disk, phases |-> readPhases, pendingEdits |-> <<>>]
  /\ tagWrite = NoWrite
  /\ service = NewService
  /\ \E A \in PhaseConfigs, c \in ListsOf(CommentChars, MaxCommentLen) \cup ExampleComments :
       codec = [NoCall EXCEPT !.availablePhases = A, !.comment = c]

\* the comment of onUpdateFilePhases built from the comment and a phase list
CallRebuildComment ==
  \E S \in DrawnFrom(codec.availablePhases) :
    /\ codec.call = ""
    /\ codec' = [codec EXCEPT !.call = "rebuild", !.phases = S,
                              !.result = RebuildComment(codec.comment,
                                                        codec.availablePhases, S)]
    /\ UNCHANGED <<edits, nextEditId, history, disk, lastApplyError, toggles, client,
                   tagWrite, service>>

\* extractPhases applied to the comment that was built
CallExtractPhases ==
  /\ codec.call = "rebuild"
  /\ codec' = [codec EXCEPT !.call = "extract", !.comment = codec.result,
                            !.result = extractPhases(codec.result, codec.availablePhases)]
  /\ UNCHANGED <<edits, nextEditId, history, disk, lastApplyError, toggles, client,
                   tagWrite, service>>

\* extractPhases applied to the comment as it is on the file
CallExtractPhasesOfFile ==
  /\ codec.call = ""
  /\ codec' = [codec EXCEPT !.call = "scan",
                            !.result = extractPhases(codec.comment, codec.availablePhases)]
  /\ UNCHANGED <<edits, nextEditId, history, disk, lastApplyError, toggles, client,
                 tagWrite, service>>

NextCodec == CallRebuildComment \/ CallExtractPhases \/ CallExtractPhasesOfFile

SpecCodec == InitCodec /\ [][NextCodec]_vars

\* ------------------------------------------------ writeComment step by step
\* the catch block of writeComment: the error caught is wrapped
WriteFailed(w, message) ==
  [w EXCEPT !.pc = "threw", !.error = <<WriteError, ": ", message>>]

\* await fs.access(filePath)
CheckAccess(w, ok) ==
  IF ok THEN [w EXCEPT !.pc = "stat", !.access = "ok"]
  ELSE WriteFailed([w EXCEPT !.access = "failed"], "ENOENT")

\* await fs.stat(filePath)
ReadStats(w, ok) ==
  IF ok THEN [w EXCEPT !.pc = "import"] ELSE WriteFailed(w, "ENOENT")

\* await getNodeID3()
LoadNodeID3(w, ok) ==
  IF ok THEN [w EXCEPT !.pc = "update"]
  ELSE WriteFailed(w, "Failed to load node-id3 library")

UpdateTags_IgnoresResult(w, outcome) ==
  IF outcome = "threw" THEN WriteFailed([w EXCEPT !.update = outcome], "update error")
  ELSE [w EXCEPT !.pc = "done", !.update = outcome]

\* NodeID3.update(tags, filePath) and the test of its result
UpdateTags(w, outcome) ==
  IF outcome = "threw" THEN WriteFailed([w EXCEPT !.update = outcome], "update error")
  ELSE IF outcome = "false"
  THEN WriteFailed([w EXCEPT !.update = outcome],
                   "NodeID3.update returned false - failed to write comment to MP3 file")
  ELSE [w EXCEPT !.pc = "done", !.update = outcome]

InitWrite ==
  /\ edits = <<>>
  /\ nextEditId = 1
  /\ history = <<>>
  /\ disk = [f \in Files |-> <<>>]
  /\ lastApplyError = NoError
  /\ toggles = EmptyBag
  /\ client = [mp3Files |-> disk, phases |-> readPhases, pendingEdits |-> <<>>]
  /\ codec = NoCall
  /\ service = NewService
  /\ \E f \in Files \cup {OtherPath}, c \in ToggleComments :
       tagWrite = [NoWrite EXCEPT !.pc = "access", !.filePath = f, !.comment = c]

WriteFrame ==
  UNCHANGED <<edits, nextEditId, history, lastApplyError, toggles, client, codec, service>>

WriteAccess ==
  /\ tagWrite.pc = "access"
  /\ \E ok \in BOOLEAN : tagWrite' = CheckAccess(tagWrite, ok)
  /\ UNCHANGED disk
  /\ WriteFrame

WriteStat ==
  /\ tagWrite.pc = "stat"
  /\ \E ok \in BOOLEAN : tagWrite' = ReadStats(tagWrite, ok)
  /\ UNCHANGED disk
  /\ WriteFrame

WriteImport ==
  /\ tagWrite.pc = "import"
  /\ \E ok \in BOOLEAN : tagWrite' = LoadNodeID3(tagWrite, ok)
  /\ UNCHANGED disk
  /\ WriteFrame

\* the update changes the file's comment when it reports success
WriteUpdate ==
  /\ tagWrite.pc = "update"
  /\ \E outcome \in {"true", "false", "threw"} :
       /\ tagWrite' = UpdateTags(tagWrite, outcome)
       /\ disk' = IF outcome = "true" /\ tagWrite.filePath \in Files
                  THEN [disk EXCEPT ![tagWrite.filePath] = tagWrite.comment]
                  ELSE disk
  /\ WriteFrame

NextWrite == WriteAccess \/ WriteStat \/ WriteImport \/ WriteUpdate

SpecWrite == InitWrite /\ [][NextWrite]_vars

\* ------------------------------------------------- MusicDataService
\* cache is the set of data types the cache holds, loading the Set of keys,
\* requests the loads started and not yet settled, awaiting the
\* loadLibraryData calls whose Promise.all has not settled.
DataTypes == {"files", "phases", "pendingEdits"}

RefreshCaller == 0

isLoading(sv, key) == key \in sv.loading

setLoading(sv, key, loading) ==
  [sv EXCEPT !.loading = IF loading THEN @ \cup {key} ELSE @ \ {key}]

clearCache(sv) == [sv EXCEPT !.cache = {}, !.loading = {}]

LoadRequest(key, caller, pc) == [key |-> key, caller |-> caller, pc |-> pc]

RequestsOf(sv, caller) == {r \in BagToSet(sv.requests) : r.caller = caller}

\* loadFiles, loadPhases, loadPendingEdits up to their first await
loadData(sv, key, caller) ==
  IF isLoading(sv, key) THEN sv
  ELSE [setLoading(sv, key, TRUE) EXCEPT
          !.requests = @ (+) SetToBag({LoadRequest(key, caller, "import")})]

loadLibraryData(sv, include, caller) ==
  LET s1 == IF "files" \in include /\ ~isLoading(sv, "files")
            THEN loadData(sv, "files", caller) ELSE sv
      s2 == IF "phases" \in include /\ ~isLoading(s1, "phases")
            THEN loadData(s1, "phases", caller) ELSE s1
      s3 == IF "pendingEdits" \in include /\ ~isLoading(s2, "pendingEdits")
            THEN loadData(s2, "pendingEdits", caller) ELSE s2
  IN  IF s3.requests = sv.requests THEN s3
      ELSE [s3 EXCEPT !.awaiting = @ \cup {caller}]

refresh(sv, dataType) ==
  loadData([sv EXCEPT !.cache = @ \ {dataType}], dataType, RefreshCaller)

\* the dynamic import of a load resolved and its telefunc call is made
importResolved(sv, r) ==
  [sv EXCEPT !.requests = (@ (-) SetToBag({r}))
                          (+) SetToBag({LoadRequest(r.key, r.caller, "request")})]

\* the telefunc call of a load resolved: the cache is set, finally runs, and
\* a loadLibraryData call whose last load this was returns
loadResolved(sv, r) ==
  LET done == [setLoading(sv, r.key, FALSE) EXCEPT
                 !.cache = @ \cup {r.key},
                 !.requests = @ (-) SetToBag({r})]
  IN  IF RequestsOf(done, r.caller) = {}
      THEN [done EXCEPT !.awaiting = @ \ {r.caller}]
      ELSE done

\* a load rejected: finally runs, and the first rejection of a
\* loadLibraryData call reaches its catch
loadRejected(sv, r) ==
  LET done == [setLoading(sv, r.key, FALSE) EXCEPT
                 !.requests = @ (-) SetToBag({r})]
  IN  IF r.caller \in sv.awaiting
      THEN [clearCache(done) EXCEPT !.awaiting = @ \ {r.caller}]
      ELSE done

InitService ==
  /\ edits = <<>>
  /\ nextEditId = 1
  /\ history = <<>>
  /\ disk = [f \in Files |-> <<>>]
  /\ lastApplyError = NoError
  /\ toggles = EmptyBag
  /\ client = [mp3Files |-> disk, phases |-> readPhases, pendingEdits |-> <<>>]
  /\ codec = NoCall
  /\ tagWrite = NoWrite
  /\ service = NewService

ServiceFrame ==
  UNCHANGED <<edits, nextEditId, history, disk, lastApplyError, toggles,
              client, codec, tagWrite>>

LoadLibraryData ==
  /\ \E include \in SUBSET DataTypes, caller \in 1..MaxCalls :
       /\ caller \notin service.awaiting
       /\ RequestsOf(service, caller) = {}
       /\ BagCardinality(loadLibraryData(service, include, caller).requests)
            <= MaxLoads
       /\ service' = loadLibraryData(service, include, caller)
  /\ ServiceFrame

Refresh ==
  /\ \E dataType \in DataTypes :
       /\ BagCardinality(refresh(service, dataType).requests) <= MaxLoads
       /\ service' = refresh(service, dataType)
  /\ ServiceFrame

ClearCache ==
  /\ service' = clearCache(service)
  /\ ServiceFrame

ImportResolves ==
  /\ \E r \in BagToSet(service.requests) :
       /\ r.pc = "import"
       /\ service' = importResolved(service, r)
  /\ ServiceFrame

LoadResolves ==
  /\ \E r \in BagToSet(service.requests) :
       /\ r.pc = "request"
       /\ service' = loadResolved(service, r)
  /\ ServiceFrame

LoadRejects ==
  /\ \E r \in BagToSet(service.requests) : service' = loadRejected(service, r)
  /\ ServiceFrame

NextService ==
  \/ LoadLibraryData
  \/ Refresh
  \/ ClearCache
  \/ ImportResolves
  \/ LoadResolves
  \/ LoadRejects

SpecService == InitService /\ [][NextService]_vars

\* ------------------------------------------------------------ claims
\* C1: in every reachable state of the edit store, whatever handlers ran,
\* each filePath has at most one edit row whose status is 'pending'.
AtMostOnePendingPerFile ==
  \A f \in Files : Cardinality(PendingRows(edits, f)) <= 1

\* C2: once two phase toggles of the same file, each of which looked up the
\* pending edit before the other inserted, have both finished, the store
\* holds at most one pending edit for that file.
RacingTogglesKeepOnePending ==
  toggles = EmptyBag => \A f \in Files : Cardinality(PendingRows(edits, f)) <= 1

\* C3: in a sequence of sequential phase toggles of the same file, the file
\* never has more than one pending edit, and that edit's originalComment is
\* the on-disk comment captured when the first toggle created it: no later
\* toggle changes it.
SequentialTogglesOneFrozenEdit ==
  [][\A f \in Files :
       /\ Cardinality(PendingRows(edits', f)) <= 1
       /\ \A r \in PendingRows(edits, f) :
            \E r2 \in PendingRows(edits', f) :
              r2.id = r.id /\ r2.originalComment = r.originalComment
       /\ \A r2 \in PendingRows(edits', f) : r2.originalComment = disk[f]]_vars

SequentialTogglesMerged ==
  \A f \in Files :
    \E r \in PendingRows(edits, f) :
      r.originalComment = disk[f] /\ r.newComment # r.originalComment

\* C4: once an edit row exists its originalComment never changes, whatever
\* handler runs (toggle merge, update of the comment, apply, undo).
OriginalCommentFrozen ==
  [][\A r \in Rows(edits) : \A r2 \in Rows(edits') :
       r2.id = r.id => r2.originalComment = r.originalComment]_vars

UndoneEditKeepsOriginal ==
  \E r \in Rows(edits) :
    /\ r.status = "pending"
    /\ r.newComment = <<"z">>
    /\ \E i \in 1..Len(history) :
         /\ history[i].reverted
         /\ history[i].filePath = r.filePath
         /\ history[i].oldComment = r.originalComment

\* ---- helpers of the claims about apply and undo
StatusIn(st, id) == getPendingEditById(st.edits, id).status

WriteOk(writable, edit) == validateMP3File(edit.filePath) /\ writable[edit.filePath]

Added(st) == SubSeq(st.history, Len(history) + 1, Len(st.history))

FailedIds(st) == {st.reply.failed[j].id : j \in 1..Len(st.reply.failed)}

\* the comment the batch leaves in a file: that of the last edit written to it
LastWritten(q, writable, f) ==
  LET hits == {i \in 1..Len(q) : q[i].filePath = f /\ WriteOk(writable, q[i])}
  IN  IF hits = {} THEN disk[f] ELSE q[Max(hits)].newComment

BatchIsolatesFailures ==
  \A ids \in IdInputs, w \in Writers : \A pendingEdits \in getAllPendingEdits(edits) :
    LET q == EditsToApply(pendingEdits, ids)
        out == ApplyLoop(State, w, q, 0, <<>>)
        F == {i \in 1..Len(q) : ~w[q[i].filePath]}
    IN  (\A i \in 1..Len(q) : q[i].status = "pending") =>
          /\ \A i \in 1..Len(q) :
               StatusIn(out, q[i].id) = IF i \in F THEN "failed" ELSE "applied"
          /\ out.reply.success = Len(q) - Cardinality(F)
          /\ Len(out.reply.failed) = Cardinality(F)
          /\ FailedIds(out) = {q[i].id : i \in F}

BatchPartlyFailed ==
  \E r1 \in Rows(edits), r2 \in Rows(edits) :
    /\ r1.status = "applied"
    /\ r2.status = "failed"
    /\ r1.filePath # r2.filePath
    /\ lastApplyError.filePath = r2.filePath
    /\ Len(history) = 1

\* C7: a batch apply without an id list writes exactly the edits whose status
\* is 'pending': rows that are 'applied' or 'failed' keep their status, get
\* no history entry and their files are not written.
ApplyAllTouchesOnlyPending ==
  \A w \in Writers : \A out \in onApplyPendingEdits(State, w, NoIds) :
    /\ \A r \in Rows(edits) : r.status # "pending" => r \in Rows(out.edits)
    /\ Len(Added(out)) =
         Cardinality({r \in Rows(edits) : r.status = "pending" /\ WriteOk(w, r)})
    /\ \A f \in Files : PendingRows(edits, f) = {} => out.disk[f] = disk[f]

UndoRefusedUnlessApplied ==
  \A id \in EditIds, w \in Writers :
    (Exists(edits, id) /\ StatusIn(State, id) \in {"pending", "failed"}) =>
      LET out == onUndoAppliedEdit(State, w, id)
      IN  /\ ~out.reply.ok
          /\ out.edits = edits
          /\ out.history = history
          /\ out.disk = disk

FailedEditOnChangedFile ==
  \E r \in Rows(edits) : \E i \in 1..Len(history) :
    /\ r.status = "failed"
    /\ disk[r.filePath] # OrEmpty(r.originalComment)
    /\ history[i].filePath = r.filePath
    /\ history[i].newComment = r.newComment
    /\ ~history[i].reverted

\* C10: undo writes the original comment and returns the edit to 'pending'
\* only when an unreverted history entry with the edit's filePath and
\* newComment exists; without one it changes neither the disk nor the status.
UndoNeedsHistoryEntry ==
  \A id \in EditIds, w \in Writers :
    (/\ Exists(edits, id)
     /\ StatusIn(State, id) = "applied"
     /\ Matching(history, getPendingEditById(edits, id)) = {}) =>
      LET out == onUndoAppliedEdit(State, w, id)
      IN  out.disk = disk /\ out.edits = edits

\* C11: rejecting an edit whose status is 'applied' or 'failed' is refused
\* with an error and the row stays in the store, through onRejectPendingEdit
\* and through onDeletePendingEdit alike.
RejectRefusedUnlessPending ==
  \A id \in EditIds :
    (Exists(edits, id) /\ StatusIn(State, id) \in {"applied", "failed"}) =>
      \A out \in {onRejectPendingEdit(State, id), onDeletePendingEdit(State, id)} :
        ~out.reply.ok /\ out.edits = edits

\* C12: an edit whose batch apply failed keeps its row with status 'failed',
\* and a later batch apply that names its id, with the write succeeding,
\* moves it to 'applied' and appends a history entry for it.
FailedEditRetriedById ==
  \A id \in EditIds, w1 \in Writers, w2 \in Writers :
    (/\ Exists(edits, id)
     /\ StatusIn(State, id) = "pending"
     /\ ~WriteOk(w1, getPendingEditById(edits, id))
     /\ WriteOk(w2, getPendingEditById(edits, id))) =>
      \A s1 \in onApplyPendingEdits(State, w1, {id}) :
        /\ Exists(s1.edits, id)
        /\ getPendingEditById(s1.edits, id) =
             [getPendingEditById(edits, id) EXCEPT !.status = "failed"]
        /\ s1.history = history
        /\ \A s2 \in onApplyPendingEdits(s1, w2, {id}) :
             LET E == getPendingEditById(edits, id)
             IN  /\ StatusIn(s2, id) = "applied"
                 /\ s2.reply.success = 1
                 /\ s2.reply.failed = <<>>
                 /\ s2.disk[E.filePath] = E.newComment
                 /\ s2.history =
                      insertHistory(history, E.filePath, E.originalComment, E.newComment)

RetriedEditApplied ==
  /\ nextEditId = 2
  /\ Len(edits) = 1
  /\ edits[1].status = "applied"
  /\ lastApplyError = [error |-> WriteError, filePath |-> edits[1].filePath]
  /\ disk[edits[1].filePath] = edits[1].newComment
  /\ history # <<>>
  /\ history[Len(history)].filePath = edits[1].filePath
  /\ history[Len(history)].newComment = edits[1].newComment
  /\ ~history[Len(history)].reverted

\* C13: no edit row ever holds a newComment that is empty or only
\* whitespace, the row produced by a phase toggle that removes the only
\* content of the comment included: such a proposal is rejected before the
\* edit store is changed.
NoEmptyNewComment == \A r \in Rows(edits) : Trim(r.newComment) # <<>>

\* C14: every operation addressed to an edit id that is not in the store
\* (apply with explicit ids, reject, delete, update of the comment, undo)
\* reports an error to its caller and changes neither the store, the history
\* nor the disk.
MissingIdReportsNotFound ==
  \A id \in EditIds : ~Exists(edits, id) =>
    \A w \in Writers, c \in UserComments :
      \A out \in onApplyPendingEdits(State, w, {id})
                 \cup {onRejectPendingEdit(State, id), onDeletePendingEdit(State, id),
                       onUpdatePendingEdit(State, id, c), onUndoAppliedEdit(State, w, id)} :
        /\ ~out.reply.ok
        /\ out.edits = edits
        /\ out.history = history
        /\ out.disk = disk

\* ---- helpers of the claim about the effect of a phase toggle
OnlyNewCommentDiffers(es, es2) ==
  /\ Len(es2) = Len(es)
  /\ \E i \in 1..Len(es) :
       /\ es2[i] = [es[i] EXCEPT !.newComment = es2[i].newComment]
       /\ \A j \in 1..Len(es) : j # i => es2[j] = es[j]

OneRowInserted(es, es2, filePath) ==
  /\ Len(es2) = Len(es) + 1
  /\ SubSeq(es2, 1, Len(es)) = es
  /\ es2[Len(es2)].filePath = filePath
  /\ es2[Len(es2)].status = "pending"

\* C15: a phase-toggle proposal, whether it succeeds or fails, never writes
\* to a file: the on-disk comments and the history log are unchanged by it,
\* and its only effect is the insert of one edit row or the update of the
\* newComment of one edit row.
TogglePhasesConfinedToStore ==
  \A f \in Files, ph \in PhaseLists, readOk \in BOOLEAN :
    \A out \in onUpdateFilePhases(State, f, ph, readOk) :
      /\ out.disk = disk
      /\ out.history = history
      /\ out.lastApplyError = lastApplyError
      /\ out.reply.ok = readOk
      /\ IF readOk
         THEN OnlyNewCommentDiffers(edits, out.edits) \/ OneRowInserted(edits, out.edits, f)
         ELSE out.edits = edits

ToggleProposedOnly ==
  \E r \in Rows(edits) :
    /\ r.status = "pending"
    /\ r.newComment = <<"x", " ", "#", "q">>
    /\ disk[r.filePath] = <<"x", " ", "#", "p">>
    /\ history = <<>>

\* C16: for a file with no pending edit and two distinct available phases P
\* and Q absent from its comment, toggling P on and then, once the first
\* toggle completed and the client refreshed its pending edits, toggling Q on
\* leaves one edit row, with the id the first toggle created, whose
\* newComment is the original free text followed by #P and #Q and whose
\* originalComment is still the original comment.
TwoTogglesMergeIntoOneEdit ==
  \A f \in Files, P \in PhaseNames, Q \in PhaseNames :
    (/\ P # Q
     /\ PendingRows(edits, f) = {}
     /\ extractPhases(disk[f], readPhases) = <<>>) =>
      \A r1 \in handlePhaseToggle(State, client, f, P, TRUE, TRUE) :
        \A r2 \in handlePhaseToggle(r1.server, r1.client, f, Q, TRUE, TRUE) :
          LET out == r2.server
              row == getPendingEditById(out.edits, nextEditId)
              text == NonTagContent(disk[f])
              tags == <<"#">> \o P \o <<" ", "#">> \o Q
          IN  /\ r1.server.reply.ok /\ out.reply.ok
              /\ PendingRows(r1.server.edits, f) =
                   {getPendingEditById(r1.server.edits, nextEditId)}
              /\ PendingRows(out.edits, f) = {row}
              /\ Len(out.edits) = Len(edits) + 1
              /\ row.originalComment = disk[f]
              /\ extractPhases(row.newComment, readPhases) = <<P, Q>>
              /\ Len(row.newComment) >= Len(text) + Len(tags)
              /\ SubSeq(row.newComment, Len(row.newComment) - Len(tags) + 1,
                        Len(row.newComment)) = tags
              /\ SubSeq(row.newComment, 1, Len(text)) = text
              /\ MatchTags(disk[f], 1) = <<>> =>
                   row.newComment = Join((IF text = <<>> THEN <<>> ELSE <<text>>)
                                         \o << <<"#">> \o P, <<"#">> \o Q >>)

SecondToggleMerged ==
  \E r \in Rows(edits) :
    /\ r.status = "pending"
    /\ r.originalComment = <<"x">>
    /\ disk[r.filePath] = <<"x">>
    /\ r.newComment = <<"x", " ", "#", "p", " ", "#", "q">>
    /\ Cardinality(PendingRows(edits, r.filePath)) = 1
    /\ \E i \in 1..Len(client.pendingEdits) : client.pendingEdits[i] = r

\* C17: the list-pending operation returns exactly the edit rows whose status
\* is 'pending', no 'applied' or 'failed' row, ordered by createdAt
\* descending.
ListPendingReturnsPendingOnly ==
  \A q \in onGetPendingEdits(State) :
    /\ {q[i] : i \in 1..Len(q)} = {r \in Rows(edits) : r.status = "pending"}
    /\ IsSortedDesc(q)

\* C18: the status of an edit changes only from pending to applied, from
\* pending to failed, from failed to applied or to failed again, and from
\* applied to pending; no operation takes an edit from 'applied' to 'failed'
\* or from 'failed' to 'pending'.
StatusChangesAlongLifecycle ==
  [][\A r \in Rows(edits) : \A r2 \in Rows(edits') :
       r2.id = r.id =>
         <<r.status, r2.status>> \in
           { <<"pending", "pending">>, <<"pending", "applied">>, <<"pending", "failed">>,
             <<"failed", "failed">>, <<"failed", "applied">>,
             <<"applied", "applied">>, <<"applied", "pending">> }]_vars

\* C19: togglePhase with enable = true is idempotent: for every phase list L
\* and phase P, togglePhase(togglePhase(L, P, true), P, true) equals
\* togglePhase(L, P, true), and the result contains P exactly once.
ToggleOnIsIdempotent ==
  /\ \A P \in TagNames :
       LET once == togglePhase(codec.phases, P, TRUE)
       IN  togglePhase(once, P, TRUE) = once /\ Count(once, P) = 1
  /\ codec.call = "on" =>
       /\ togglePhase(codec.result, codec.phase, TRUE) = codec.result
       /\ Count(codec.result, codec.phase) = 1

ToggledOnOverDuplicates ==
  /\ codec.call = "on"
  /\ Count(codec.phases, codec.phase) = 2
  /\ Count(codec.result, codec.phase) = 1
  /\ Len(codec.result) = Len(codec.phases) - 1

\* C20: for every original comment, available phase list A and
\* duplicate-free phase list S drawn from A, extracting the phases (with A)
\* from the comment rebuilt from the original comment and S returns exactly
\* S, whatever phases, foreign tags and free text the original comment held.
RebuildThenExtractReturnsPhases ==
  codec.call = "extract" => codec.result = codec.phases

\* ---- helpers of the claim about the rebuilt comment: the hashtags of a
\* comment by their positions
TokenStarts(c) == {i \in 1..(Len(c) - 1) : c[i] = "#" /\ c[i + 1] \in WordChars}

TokenEnd(c, i) ==
  Max({j \in (i + 1)..Len(c) : \A m \in (i + 1)..j : c[m] \in WordChars})

InToken(c, k) == \E i \in TokenStarts(c) : i <= k /\ k <= TokenEnd(c, i)

RECURSIVE Pick(_, _)
Pick(c, positions) ==
  IF positions = {} THEN <<>>
  ELSE Pick(c, positions \ {Max(positions)}) \o <<c[Max(positions)]>>

FreeText(c) == Trim(Pick(c, {k \in 1..Len(c) : ~InToken(c, k)}))

RECURSIVE ForeignTokens(_, _, _)
ForeignTokens(c, starts, availablePhases) ==
  IF starts = {} THEN <<>>
  ELSE LET i == Max(starts)
           token == SubSeq(c, i, TokenEnd(c, i))
           isPhase == \E n \in 1..Len(availablePhases) :
                        availablePhases[n] = SubSeq(c, i + 1, TokenEnd(c, i))
       IN  ForeignTokens(c, starts \ {i}, availablePhases)
           \o (IF isPhase THEN <<>> ELSE <<token>>)

RECURSIVE SpaceJoined(_)
SpaceJoined(parts) ==
  IF parts = <<>> THEN <<>>
  ELSE LET front == SpaceJoined(SubSeq(parts, 1, Len(parts) - 1))
       IN  IF front = <<>> THEN parts[Len(parts)]
           ELSE front \o <<" ">> \o parts[Len(parts)]

\* C21: the rebuilt comment keeps every hashtag of the original comment that
\* is not an available phase and all of its non-hashtag text, drops every
\* original hashtag that is an available phase, and is the free text, then
\* the foreign tags, then the requested phase tags, joined by single spaces
\* and trimmed; "#custom notes #peak" with peak toggled off gives
\* "notes #custom".
RebuiltCommentKeepsForeignContent ==
  /\ codec.call = "rebuild" =>
       codec.result =
         SpaceJoined((IF FreeText(codec.comment) = <<>> THEN <<>>
                      ELSE <<FreeText(codec.comment)>>)
                     \o ForeignTokens(codec.comment, TokenStarts(codec.comment),
                                      codec.availablePhases)
                     \o [i \in 1..Len(codec.phases) |-> <<"#">> \o codec.phases[i]])
  /\ (/\ codec.call = "rebuild"
      /\ codec.comment \in ExampleComments
      /\ codec.phases = <<>>
      /\ Includes(codec.availablePhases, <<"p">>)) =>
       codec.result = <<"x", " ", "#", "z">>

ExampleCommentRebuilt ==
  /\ codec.call = "rebuild"
  /\ codec.comment = <<"#", "z", " ", "x", " ", "#", "p">>
  /\ codec.phases = <<>>
  /\ codec.result = <<"x", " ", "#", "z">>

\* C22: writeComment fails with an error whose message begins with 'Failed
\* to write MP3 comment' whenever the file is not accessible or the ID3
\* update reports failure, and when the file-access check fails the ID3
\* update is never attempted.
WriteCommentFailsWithPrefix ==
  /\ tagWrite.access = "failed" =>
       /\ tagWrite.pc = "threw"
       /\ tagWrite.error[1] = "Failed to write MP3 comment"
       /\ tagWrite.update = ""
       /\ disk = [f \in Files |-> <<>>]
  /\ tagWrite.update \in {"false", "threw"} =>
       /\ tagWrite.pc = "threw"
       /\ tagWrite.error[1] = "Failed to write MP3 comment"

UpdateReportedFailure ==
  /\ tagWrite.update = "false"
  /\ tagWrite.access = "ok"
  /\ tagWrite.pc = "threw"
  /\ tagWrite.comment # <<>>

\* C23: when a pending edit exists for the file, a phase toggle derives the
\* new comment only from the edit's frozen originalComment, the available
\* phases and the toggled phase: the newComment it stores is the comment
\* rebuilt from originalComment with the phases of originalComment toggled,
\* whatever the edit's current newComment is.
ToggleDerivesFromOriginalOnly ==
  [][\A r \in Rows(edits) : \A r2 \in Rows(edits') :
       (r2.id = r.id /\ r.status = "pending" /\ r2.newComment # r.newComment) =>
         \E phase \in PhaseNames, checked \in BOOLEAN :
           r2.newComment =
             RebuildComment(r.originalComment, client.phases,
                            togglePhase(extractPhases(OrEmpty(r.originalComment),
                                                      client.phases),
                                        phase, checked))]_vars

\* C24: two toggles that enable two distinct phases on the same file leave
\* both phases in the newComment of the file's pending edit whichever request
\* is processed first, also when both requests were computed from the same
\* snapshot of the pending edits: neither toggle is lost.
NoEnablingToggleLost ==
  (\A t \in BagToSet(toggles) : t.done) =>
    \A t \in BagToSet(toggles) : \A r \in PendingRows(edits, t.filePath) :
      Includes(extractPhases(r.newComment, client.phases), t.phase)

\* C25: extractPhases returns only tokens that are members of the available
\* phases, in the order of their first appearance in the comment, and each
\* phase at most once even when its hashtag occurs several times; an empty
\* comment gives an empty list.
ExtractedPhasesAreDistinct ==
  codec.call = "scan" =>
    /\ \A i \in 1..Len(codec.result) : Includes(codec.availablePhases, codec.result[i])
    /\ \A i \in 1..Len(codec.result) : \A j \in 1..Len(codec.result) :
         codec.result[i] = codec.result[j] => i = j
    /\ codec.comment = <<>> => codec.result = <<>>

\* C26: the effective comment of a file is the newComment of the file's edit
\* with status 'pending' if there is one, and the on-disk comment otherwise;
\* edits of the file with status 'applied' or 'failed' never determine it.
EffectiveCommentFromPendingOnly ==
  \A f \in Files : \A q \in onGetPendingEdits(State) :
    \A effective \in {getEffectiveComment(q, f, disk[f]),
                      getEffectiveCommentForDisplay([filePath |-> f, comment |-> disk[f]],
                                                    q)} :
      IF PendingRows(edits, f) # {}
      THEN \E r \in PendingRows(edits, f) : effective = r.newComment
      ELSE effective = disk[f]

\* C27: after an apply operation, batch or single-edit, in which a disk
\* write failed, the last-apply-error diagnostic holds the filePath and the
\* message of the most recent failed write; an apply without a failure keeps
\* the value it found, and clearing sets it to null without touching any
\* edit.
LastApplyErrorTracksFailures ==
  /\ \A ids \in IdInputs, w \in Writers : \A out \in onApplyPendingEdits(State, w, ids) :
       out.lastApplyError =
         IF out.reply.failed = <<>> THEN lastApplyError
         ELSE [error |-> out.reply.failed[Len(out.reply.failed)].error,
               filePath |-> out.reply.failed[Len(out.reply.failed)].filePath]
  /\ \A id \in EditIds, w \in Writers :
       (Exists(edits, id) /\ StatusIn(State, id) = "pending") =>
         onApplyPendingEdit(State, w, id).lastApplyError =
           IF WriteOk(w, getPendingEditById(edits, id)) THEN lastApplyError
           ELSE [error |-> WriteError, filePath |-> getPendingEditById(edits, id).filePath]
  /\ onClearLastApplyError(State).lastApplyError = NoError
  /\ onClearLastApplyError(State).edits = edits

\* C28: if the disk write performed by the undo fails, the error reaches the
\* caller, the edit keeps status 'applied' and no history entry is marked
\* reverted.
FailedUndoChangesNothing ==
  \A id \in EditIds, w \in Writers :
    (/\ Exists(edits, id)
     /\ StatusIn(State, id) = "applied"
     /\ ~w[getPendingEditById(edits, id).filePath]) =>
      LET out == onUndoAppliedEdit(State, w, id)
      IN  /\ out.reply = Err(WriteError)
          /\ StatusIn(out, id) = "applied"
          /\ out.edits = edits
          /\ out.history = history
          /\ out.disk = disk

UndoableEditInPlace ==
  /\ Len(history) = 1
  /\ ~history[1].reverted
  /\ lastApplyError = NoError
  /\ \E r \in Rows(edits) :
       /\ r.status = "applied"
       /\ r.filePath = history[1].filePath
       /\ r.newComment = history[1].newComment
       /\ disk[r.filePath] = r.newComment
       /\ OrEmpty(r.originalComment) # r.newComment

\* C29: in every reachable state each edit with status 'applied' has an
\* unreverted history entry with the same filePath and the same newComment.
AppliedEditHasLiveHistory ==
  \A r \in Rows(edits) :
    r.status = "applied" => Matching(history, r) # {}

InFlight(sv, key) ==
  LET rs == {r \in BagToSet(sv.requests) : r.key = key /\ r.pc = "request"}
  IN  BagCardinality([r \in rs |-> sv.requests[r]])

\* C30: in MusicDataService, for each data type (files, phases, pendingEdits)
\* at most one load request is in flight at any time, under any interleaving
\* of loadLibraryData, refresh and clearCache calls.
OneLoadInFlightPerDataType ==
  \A key \in DataTypes : InFlight(service, key) <= 1

====
